---------------------------- MODULE Spec2Model ----------------------------
(***************************************************************************)
(* A model of the stock-forecast pipeline: the series aligner of           *)
(* preprocess_data, the feature engine add_technical_indicators, the two   *)
(* train_prophet_model implementations (Stage A), train_model (Stage B),   *)
(* the monthly aggregation and run_pipeline.                               *)
(*                                                                         *)
(* Conventions.  A date is a day number (an integer).  A table (pandas     *)
(* DataFrame) is a record [cols, index, rows]: cols is the set of column   *)
(* names, rows the sequence of rows, each a function from cols to cells,   *)
(* index the sequence of row labels.  A raw cell is a natural number, NaN  *)
(* stands for a missing raw cell.  A derived (floating point) cell is a    *)
(* pair <<num, den>> with den > 0; NaNQ is the missing derived cell.       *)
(***************************************************************************)
EXTENDS Integers, Sequences, FiniteSets, TLC

VARIABLES
    pc,          \* position of the function being run
    err,         \* the exception raised, "none" while there is none
    stock_df,    \* preprocess_data: the caller's asset table
    macro_df,    \* preprocess_data: the caller's macro table
    merged,      \* preprocess_data: local `merged`
    featCalls,   \* number of add_technical_indicators calls made so far
    data,        \* the table a stage is given by its caller
    out,         \* the table a stage returns
    ticker,      \* run_pipeline: the ticker it is called with
    disk,        \* the files that exist under static/
    bound,       \* run_pipeline: its local names that are bound
    written,     \* run_pipeline: the files this run has written
    frame,       \* train_model: local `data` once it has its indicators
    split_date,  \* train_model: the boundary date
    train,       \* train_model: the training partition
    test,        \* train_model: the test partition
    fit,         \* the fitted Prophet model
    forecast,    \* the forecast table of Stage A
    model,       \* train_model: the fitted residual model
    y_pred,      \* train_model: the hybrid forecast it returns
    impl,        \* Stage A: which train_prophet_model runs
    tkr,         \* Stage A: its ticker argument
    periods,     \* Stage A: its periods argument
    max_price,   \* Stage A: the price ceiling
    prophet_df,  \* Stage A: local `df`, the table Prophet is fitted on
    actual_monthly,   \* Stage A: the actual monthly table
    forecast_monthly  \* Stage A: the forecast monthly table

\* The variables of run_pipeline.
pipeVars == <<ticker, disk, bound, written>>

\* The variables of preprocess_data and of the feature engine.
tableVars == <<stock_df, macro_df, merged, featCalls, data, out>>

\* The variables of train_model and of Stage A.
trainVars == <<frame, split_date, train, test, fit, forecast, model, y_pred>>

\* The other variables of train_prophet_model of prophet_model.py.
stageVars == <<impl, tkr, periods, max_price, prophet_df, actual_monthly, forecast_monthly>>

vars == <<pc, err, tableVars, pipeVars, trainVars, stageVars>>

---------------------------------------------------------------------------
(* Cells and small helpers *)

NaN == -1
NaNQ == <<0, 0>>

Max(S) == CHOOSE x \in S : \A y \in S : y <= x
Min(S) == CHOOSE x \in S : \A y \in S : x <= y
Abs(x) == IF x < 0 THEN -x ELSE x

\* The same function, with every value computed once (f @@ g copies both).
Eager(f) == f @@ <<>>

EmptyTable == [cols |-> {}, index |-> <<>>, rows |-> <<>>]

\* pandas' default row labels 0, 1, ..., n-1.
RangeIndex(n) == [i \in 1..n |-> i - 1]

\* The columns that hold derived (floating point) cells.
DerivedCols == {"Momentum_14", "Volatility_7", "Volatility_30",
                "SP500_Relative", "Close_Lag_7", "Close_Lag_14",
                "Market_Cap_Relative"}

IsMissing(row, c) == IF c \in DerivedCols THEN row[c] = NaNQ ELSE row[c] = NaN

\* run_pipeline is not running.
PipeIdle == ticker = "" /\ disk = {} /\ bound = {} /\ written = {}

\* No fitted model.
NoModel == [w0 |-> 0, w1 |-> 0, fitted |-> FALSE]
NoFit == [a |-> 0, b |-> 0, u |-> 0, fitted |-> FALSE]

\* train_model and Stage A are not running.
TrainIdle ==
    /\ frame = EmptyTable /\ split_date = NaN /\ train = EmptyTable
    /\ test = EmptyTable /\ fit = NoFit /\ forecast = EmptyTable
    /\ model = NoModel /\ y_pred = <<>>

\* train_prophet_model of prophet_model.py is not running.
StageIdle ==
    /\ impl = "" /\ tkr = "" /\ periods = 0 /\ max_price = 0 /\ prophet_df = EmptyTable
    /\ actual_monthly = <<>> /\ forecast_monthly = <<>>

---------------------------------------------------------------------------
(* Series Aligner: preprocess_data *)

StockCols == {"Date", "Open", "High", "Low", "Close", "Volume"}

\* df.sort_values('Date') on unique dates: row i is the row of rank i.
SortByDate(rows) ==
    Eager([i \in 1..Len(rows) |->
        rows[CHOOSE j \in 1..Len(rows) :
                Cardinality({k \in 1..Len(rows) : rows[k].Date < rows[j].Date}) = i - 1]])

\* enforce_date_column: dates are already naive timestamps here; what is
\* left of it is the sort by Date (no row has an unparseable date).
enforce_date_column(df) == [cols |-> df.cols, rows |-> SortByDate(df.rows)]

\* pd.date_range(start, end, freq='D'): empty when start > end.
date_range(start, end) == Eager([i \in 1..(end - start + 1) |-> start + (i - 1)])

\* df.set_index('Date').reindex(dr): the row of each date of dr, every
\* value column missing where the table has no row of that date.
Reindex(df, dr) ==
    [cols |-> df.cols,
     rows |-> Eager([i \in 1..Len(dr) |->
                 IF \E j \in 1..Len(df.rows) : df.rows[j].Date = dr[i]
                 THEN df.rows[CHOOSE j \in 1..Len(df.rows) : df.rows[j].Date = dr[i]]
                 ELSE Eager([c \in df.cols |-> IF c = "Date" THEN dr[i] ELSE NaN])])]

\* .ffill(): per column, the last present cell at or above the row.
Ffill(df) ==
    [cols |-> df.cols,
     rows |-> Eager([i \in 1..Len(df.rows) |->
                 Eager([c \in df.cols |->
                    LET seen == {j \in 1..i : df.rows[j][c] # NaN}
                    IN IF seen = {} THEN NaN ELSE df.rows[Max(seen)][c]])])]

\* .bfill(): per column, the first present cell at or below the row.
Bfill(df) ==
    [cols |-> df.cols,
     rows |-> Eager([i \in 1..Len(df.rows) |->
                 Eager([c \in df.cols |->
                    LET seen == {j \in i..Len(df.rows) : df.rows[j][c] # NaN}
                    IN IF seen = {} THEN NaN ELSE df.rows[Min(seen)][c]])])]

\* One side of the alignment: set_index, reindex, ffill, bfill, reset_index.
AlignSeries(df, dr) == Bfill(Ffill(Reindex(df, dr)))

\* pd.merge_asof(left, right, on='Date', direction='nearest'): every left
\* row, with the cells of the right row of nearest date (the earlier one
\* on a tie); the right columns are missing when right has no row.
merge_asof(left, right) ==
    LET rc == right.cols \ {"Date"}
        near(d) == CHOOSE j \in 1..Len(right.rows) :
                      \A k \in 1..Len(right.rows) :
                         \/ Abs(right.rows[j].Date - d) < Abs(right.rows[k].Date - d)
                         \/ /\ Abs(right.rows[j].Date - d) = Abs(right.rows[k].Date - d)
                            /\ right.rows[j].Date <= right.rows[k].Date
    IN [cols |-> left.cols \cup rc,
        index |-> RangeIndex(Len(left.rows)),
        rows |-> Eager([i \in 1..Len(left.rows) |->
                    Eager([c \in left.cols \cup rc |->
                       IF c \in left.cols THEN left.rows[i][c]
                       ELSE IF Len(right.rows) = 0 THEN NaN
                       ELSE right.rows[near(left.rows[i].Date)][c]])])]

required_macro == {"Volatility_14", "Momentum_7", "Price_Diff",
                   "Interest_Rate_MA30", "SP500_MA30"}

\* merged[col] = 2.5 if col == 'Interest_Rate' else 4000, for the columns of
\* required_macro the merge did not bring ('Interest_Rate' is not one).
DefaultFill == 4000

AddDefaults(df) ==
    [cols |-> df.cols \cup required_macro,
     index |-> df.index,
     rows |-> Eager([i \in 1..Len(df.rows) |->
                 Eager([c \in df.cols \cup required_macro |->
                     IF c \in df.cols THEN df.rows[i][c] ELSE DefaultFill])])]

\* Lines 97-154 of preprocess_data: from the two standardized tables to
\* the merged table with its default columns.
AlignAndMerge(stock0, macro0) ==
    LET stock == enforce_date_column(stock0)
        macro == enforce_date_column(macro0)
        start_date == Max({stock.rows[1].Date, macro.rows[1].Date})
        end_date == Min({stock.rows[Len(stock.rows)].Date,
                         macro.rows[Len(macro.rows)].Date})
        dr == date_range(start_date, end_date)
    IN AddDefaults(merge_asof(AlignSeries(stock, dr), AlignSeries(macro, dr)))

MinRows == 30

---------------------------------------------------------------------------
(* Feature Engine: add_technical_indicators *)

InfQ == <<1, 0>>

IsFinite(q) == q[2] # 0

\* One cell of Close.pct_change(k): (cur - prev) / prev in floating point,
\* missing when an operand is missing or for 0/0, infinite for x/0.
PctChange(prev, cur) ==
    IF prev = NaN \/ cur = NaN THEN NaNQ
    ELSE IF prev = 0 THEN (IF cur = 0 THEN NaNQ ELSE InfQ)
    ELSE <<cur - prev, prev>>

\* Close.pct_change(k) at row i of the column `close`.
pct_change(close, k, i) ==
    IF i <= k THEN NaNQ ELSE PctChange(close[i - k], close[i])

\* Close.shift(k) at row i.
shift(close, k, i) ==
    IF i <= k \/ close[i - k] = NaN THEN NaNQ ELSE <<close[i - k], 1>>

\* a / b in floating point.
Div(a, b) ==
    IF a = NaN \/ b = NaN THEN NaNQ
    ELSE IF b = 0 THEN (IF a = 0 THEN NaNQ ELSE InfQ)
    ELSE <<a, b>>

RECURSIVE SumOver(_, _, _)
SumOver(f, lo, hi) == IF lo > hi THEN 0 ELSE f[lo] + SumOver(f, lo + 1, hi)

\* Close.pct_change().rolling(w).std() at row i: missing unless the window
\* i-w+1..i holds w finite returns (min_periods = w).  The closes of the
\* model are such that twice a return is an integer R; the cell holds the
\* sample variance (w*sum(R^2) - sum(R)^2) / (4*w*(w-1)), whose square root
\* the code takes.
rolling_std(close, w, i) ==
    LET lo == i - w + 1
        ret == Eager([j \in (IF lo < 1 THEN {} ELSE lo..i) |-> pct_change(close, 1, j)])
    IN IF lo < 1 \/ \E j \in lo..i : ~IsFinite(ret[j]) THEN NaNQ
       ELSE LET R == [j \in lo..i |-> (2 * ret[j][1]) \div ret[j][2]]
                R2 == [j \in lo..i |-> R[j] * R[j]]
                s == SumOver(R, lo, i)
            IN <<w * SumOver(R2, lo, i) - s * s, 4 * w * (w - 1)>>

\* The rows of df at the positions of `keep`, in order, with their labels.
KeepRows(df, keep) ==
    LET nth(k) == CHOOSE p \in keep : Cardinality({q \in keep : q < p}) = k - 1
    IN [cols |-> df.cols,
        index |-> Eager([k \in 1..Cardinality(keep) |-> df.index[nth(k)]]),
        rows |-> Eager([k \in 1..Cardinality(keep) |-> df.rows[nth(k)]])]

\* df.dropna(): the rows with no missing cell, labels kept.
dropna(df) ==
    KeepRows(df, {i \in 1..Len(df.rows) : \A c \in df.cols : ~IsMissing(df.rows[i], c)})

\* The derived cells of row i, before dropna.
DerivedRow(df, i) ==
    LET close == Eager([j \in 1..Len(df.rows) |-> df.rows[j].Close])
    IN [Momentum_14 |-> pct_change(close, 14, i),
        Volatility_7 |-> rolling_std(close, 7, i),
        Volatility_30 |-> rolling_std(close, 30, i),
        SP500_Relative |-> Div(df.rows[i].Close, df.rows[i].SP500),
        Close_Lag_7 |-> shift(close, 7, i),
        Close_Lag_14 |-> shift(close, 14, i),
        Market_Cap_Relative |->
            IF df.rows[i].Close = NaN \/ df.rows[i].Volume = NaN THEN NaNQ
            ELSE Div(df.rows[i].Close * df.rows[i].Volume, df.rows[i].SP500)]

\* df with the derived columns set, before dropna.
WithIndicators(df) ==
    [cols |-> df.cols \cup DerivedCols,
     index |-> df.index,
     rows |-> Eager([i \in 1..Len(df.rows) |->
                 LET d == DerivedRow(df, i)
                 IN Eager([c \in df.cols \cup DerivedCols |->
                        IF c \in DerivedCols THEN d[c] ELSE df.rows[i][c]])])]

\* Mutant: the missing cells filled with 0 (fillna(0)) instead of the rows dropped.
add_technical_indicators_fillna(df) ==
    LET t == WithIndicators(df)
    IN [cols |-> t.cols,
        index |-> t.index,
        rows |-> Eager([i \in 1..Len(t.rows) |->
                    Eager([c \in t.cols |->
                       IF c \in DerivedCols /\ t.rows[i][c] = NaNQ THEN <<0, 1>>
                       ELSE t.rows[i][c]])])]

\* Mutant: only the rows that lack the 14-row lag dropped
\* (dropna(subset=['Momentum_14', 'Close_Lag_14'])).
add_technical_indicators_lag14(df) ==
    LET t == WithIndicators(df)
    IN KeepRows(t, {i \in 1..Len(t.rows) :
                      \A c \in {"Momentum_14", "Close_Lag_14"} : ~IsMissing(t.rows[i], c)})

add_technical_indicators(df) == dropna(WithIndicators(df))

---------------------------------------------------------------------------
(* preprocess_data, step by step *)

required_macro_features == {"Interest_Rate", "SP500"}

required_output_features == {"Date", "Close", "Days", "Interest_Rate", "SP500",
                             "Interest_Rate_MA30", "SP500_MA30"}

\* df[cols]
Select(df, cols) ==
    [cols |-> cols,
     index |-> df.index,
     rows |-> Eager([i \in 1..Len(df.rows) |-> Eager([c \in cols |-> df.rows[i][c]])])]

\* Lines 97-154: standardize, align, fill, merge, default columns.
PreAlign ==
    /\ pc = "preprocess"
    /\ merged' = AlignAndMerge(stock_df, macro_df)
    /\ pc' = "merged"
    /\ UNCHANGED <<err, stock_df, macro_df, featCalls, data, out>>
    /\ UNCHANGED <<pipeVars, trainVars, stageVars>>

\* Mutant: the minimum-row gate left out.
PreGateRows_NoGate ==
    /\ pc = "merged"
    /\ pc' = "rows_ok"
    /\ UNCHANGED <<err, stock_df, macro_df, merged, featCalls, data, out>>
    /\ UNCHANGED <<pipeVars, trainVars, stageVars>>

\* Lines 156-158: the minimum-row gate.
PreGateRows ==
    /\ pc = "merged"
    /\ IF Len(merged.rows) < MinRows
       THEN pc' = "raised" /\ err' = "ValueError: Not enough data"
       ELSE pc' = "rows_ok" /\ err' = err
    /\ UNCHANGED <<stock_df, macro_df, merged, featCalls, data, out>>
    /\ UNCHANGED <<pipeVars, trainVars, stageVars>>

\* Lines 160-164: the raw macro columns must be there.
PreGateMacro ==
    /\ pc = "rows_ok"
    /\ IF required_macro_features \ merged.cols # {}
       THEN pc' = "raised" /\ err' = "ValueError: Missing macro features"
       ELSE pc' = "macro_ok" /\ err' = err
    /\ UNCHANGED <<stock_df, macro_df, merged, featCalls, data, out>>
    /\ UNCHANGED <<pipeVars, trainVars, stageVars>>

\* Line 167: merged = add_technical_indicators(merged).
PreFeatures ==
    /\ pc = "macro_ok"
    /\ merged' = add_technical_indicators(merged)
    /\ featCalls' = featCalls + 1
    /\ pc' = "featured"
    /\ UNCHANGED <<err, stock_df, macro_df, data, out>>
    /\ UNCHANGED <<pipeVars, trainVars, stageVars>>

\* Lines 169-193: the stock columns must be there, then the selection of
\* the output columns.  'Days' is set by no code of src/: whether the
\* table has it is not decided here, and merged[...] raises KeyError
\* without it.
PreSelect ==
    /\ pc = "featured"
    /\ \E hasDays \in BOOLEAN :
         LET cols == IF hasDays THEN merged.cols \cup {"Days"} ELSE merged.cols
         IN IF StockCols \ cols # {}
            THEN pc' = "raised" /\ err' = "ValueError: Missing columns after merging"
                 /\ out' = out
            ELSE IF required_output_features \ cols # {}
            THEN pc' = "raised" /\ err' = "KeyError" /\ out' = out
            ELSE /\ pc' = "returned" /\ err' = err
                 /\ out' = Select([cols |-> cols, index |-> merged.index,
                                   rows |-> [i \in 1..Len(merged.rows) |->
                                      [c \in cols |-> IF c = "Days" THEN i
                                                      ELSE merged.rows[i][c]]]],
                                  required_output_features)
    /\ UNCHANGED <<stock_df, macro_df, merged, featCalls, data>>
    /\ UNCHANGED <<pipeVars, trainVars, stageVars>>

Preprocess == PreAlign \/ PreGateRows \/ PreGateMacro \/ PreFeatures \/ PreSelect

---------------------------------------------------------------------------
(* The inputs of the aligner *)

\* The longest span, in days, between the first and the last date of a series.
MaxSpan == 32

Firsts == {0, 2, 4}
Spans == {0, 3, 29, MaxSpan}
\* A step of MaxSpan + 1 leaves the two end dates only.
Steps == {1, 4, MaxSpan + 1}
MacroSteps == {1, MaxSpan + 1}

SeriesDates(first, last, step) ==
    {first + k * step : k \in 0..((last - first) \div step)} \cup {last}

\* The dates of D in increasing order.
InOrder(D) ==
    [i \in 1..Cardinality(D) |-> CHOOSE d \in D : Cardinality({e \in D : e < d}) = i - 1]

Reverse(s) == [i \in 1..Len(s) |-> s[Len(s) + 1 - i]]

\* The asset row observed on day d: a price in {1, 2}, a volume that names
\* the day it was observed on.
StockRow(d) ==
    [Date |-> d, Open |-> 1 + (d % 2), High |-> 1 + (d % 2), Low |-> 1 + (d % 2),
     Close |-> 1 + (d % 2), Volume |-> 1000 + d]

\* The macro row observed on day d.
MacroRow(d) == [Date |-> d, Interest_Rate |-> 1 + (d % 3), SP500 |-> 4000 + d]

StockTables ==
    {[cols |-> StockCols,
      index |-> RangeIndex(Cardinality(SeriesDates(f, f + s, st))),
      rows |-> LET o == InOrder(SeriesDates(f, f + s, st))
               IN [i \in 1..Len(o) |-> StockRow(o[i])]] :
        f \in Firsts, s \in Spans, st \in Steps}

MacroTables ==
    {[cols |-> cs,
      index |-> RangeIndex(Cardinality(SeriesDates(f, f + s, st))),
      rows |-> LET r == InOrder(SeriesDates(f, f + s, st))
                   o == IF asc THEN r ELSE Reverse(r)
               IN [i \in 1..Len(o) |-> [c \in cs |-> MacroRow(o[i])[c]]]] :
        f \in Firsts, s \in Spans, st \in MacroSteps, asc \in BOOLEAN,
        cs \in {{"Date", "Interest_Rate", "SP500"}, {"Date", "Interest_Rate"}}}

InitAlign ==
    /\ pc = "preprocess"
    /\ err = "none"
    /\ stock_df \in StockTables
    /\ macro_df \in MacroTables
    /\ merged = EmptyTable
    /\ featCalls = 0
    /\ data = EmptyTable
    /\ out = EmptyTable
    /\ PipeIdle
    /\ TrainIdle
    /\ StageIdle

NextAlign == Preprocess

SpecAlign == InitAlign /\ [][NextAlign]_vars

---------------------------------------------------------------------------
(* Claims about the aligner, checked under SpecAlign *)

Dates(df) == {df.rows[i].Date : i \in 1..Len(df.rows)}

\* start and end of the claim: the later first date, the earlier last date.
OverlapStart == Max({Min(Dates(stock_df)), Min(Dates(macro_df))})
OverlapEnd == Min({Max(Dates(stock_df)), Max(Dates(macro_df))})

RequiredColumns == {"Open", "High", "Low", "Close", "Volume", "Interest_Rate", "SP500"}

\* The merged table is the one PreAlign built (PreFeatures has not replaced it).
MergeDone == pc \in {"merged", "rows_ok", "macro_ok"}

\* C1: for inputs with unique dates, both macro columns and a non-empty
\* overlap, the merged table has one row per calendar day of
\* [start, end], (end - start) + 1 rows, and no required column holds a
\* missing value.
C1_MergedGapFree ==
    (MergeDone /\ OverlapStart <= OverlapEnd /\ RequiredColumns \subseteq merged.cols) =>
        /\ Len(merged.rows) = (OverlapEnd - OverlapStart) + 1
        /\ \A i \in 1..Len(merged.rows) :
              /\ merged.rows[i].Date = OverlapStart + (i - 1)
              /\ \A c \in RequiredColumns : merged.rows[i][c] # NaN

\* The errors preprocess_data raises for the data-quality failures other
\* than a missing overlap.
OtherDataQualityErrors ==
    {"ValueError: Not enough data", "ValueError: Missing macro features",
     "ValueError: Missing columns after merging"}

FillDay(df, d) ==
    LET past == {e \in Dates(df) : e <= d}
    IN IF past # {} THEN Max(past) ELSE Min(Dates(df))

\* The row of a series observed on day e.
ObservedOn(df, e) == df.rows[CHOOSE i \in 1..Len(df.rows) : df.rows[i].Date = e]

\* C15: on every day d of [start, end] the aligned values of each input
\* series are those of its most recent observation dated on or before d;
\* values of a later observation are used only on days before the series'
\* first observation.
C15_ForwardFillProvenance ==
    (MergeDone /\ OverlapStart <= OverlapEnd) =>
        \A i \in 1..Len(merged.rows) :
            LET d == merged.rows[i].Date
            IN /\ \A c \in stock_df.cols \ {"Date"} :
                    merged.rows[i][c] = ObservedOn(stock_df, FillDay(stock_df, d))[c]
               /\ \A c \in macro_df.cols \ {"Date"} :
                    merged.rows[i][c] = ObservedOn(macro_df, FillDay(macro_df, d))[c]

---------------------------------------------------------------------------
(* The feature engine on its own: SpecFeat *)

\* Lines 56-58 of fetch_stock_data: the liquidity gate, Volume.mean() < 900.
MinAvgVolume == 900

LowLiquidity(df) ==
    LET vol == Eager([i \in 1..Len(df.rows) |-> df.rows[i].Volume])
    IN SumOver(vol, 1, Len(vol)) < MinAvgVolume * Len(vol)

\* Line 157 of preprocess_data, as a predicate.
TooFewRows(df) == Len(df.rows) < MinRows

\* The most rows a table given to the feature engine has.
MaxRows == 41

\* Rows from which on a table's closes are 0 (a price that fell to zero and
\* stayed there); a table of n rows with no zero close has its start at n.
ZeroStarts == {0, 20, 33}

MergedCols == StockCols \cup {"Interest_Rate", "SP500"}

\* A gap-free merged table of n daily rows.  "const" is the table of
\* close 100, volume 1000, interest rate 2.5 (held in tenths) and index
\* level 4000; "alt" has closes alternating between 1 and 2.
FeatTable(n, pat, z) ==
    [cols |-> MergedCols,
     index |-> RangeIndex(n),
     rows |-> Eager([i \in 1..n |->
        LET c == IF i > z THEN 0 ELSE IF pat = "const" THEN 100 ELSE 1 + (i % 2)
        IN [Date |-> i - 1, Open |-> c, High |-> c, Low |-> c, Close |-> c,
            Volume |-> IF pat = "const" THEN 1000 ELSE 1000 + i,
            Interest_Rate |-> 25, SP500 |-> 4000]])]

FeatTables ==
    {FeatTable(n, pat, z) :
        n \in 0..MaxRows, pat \in {"const", "alt"}, z \in ZeroStarts \cup {MaxRows}}

InitFeat ==
    /\ pc = "features"
    /\ err = "none"
    /\ stock_df = EmptyTable
    /\ macro_df = EmptyTable
    /\ merged = EmptyTable
    /\ featCalls = 0
    /\ data \in FeatTables
    /\ out = EmptyTable
    /\ PipeIdle
    /\ TrainIdle
    /\ StageIdle

\* A call of add_technical_indicators(data).
FeatApply ==
    /\ pc = "features"
    /\ out' = add_technical_indicators(data)
    /\ featCalls' = featCalls + 1
    /\ pc' = "featured"
    /\ UNCHANGED <<err, stock_df, macro_df, merged, data>>
    /\ UNCHANGED <<pipeVars, trainVars, stageVars>>

NextFeat == FeatApply

SpecFeat == InitFeat /\ [][NextFeat]_vars

---------------------------------------------------------------------------
(* Claims about the feature engine, checked under SpecFeat *)

\* The lags and windows of the derivations: pct_change(14), the one-step
\* return, rolling(7), rolling(30), shift(7), shift(14).
Windows == {14, 1, 7, 30}

\* The longest requirement: the 30 returns of Volatility_30, the first of
\* which needs the close of the row before.
W == Max(Windows)

NoZeroClose(df) == \A i \in 1..Len(df.rows) : df.rows[i].Close # 0

\* The output is the input without its first w rows: same order, same
\* labels, same raw cells, and every derived cell computed from the row's
\* own history (none missing, none a default).
DropsFirst(w) ==
    /\ Len(out.rows) = Len(data.rows) - w
    /\ \A k \in 1..Len(out.rows) :
          LET i == w + k
              close(j) == data.rows[j].Close
          IN /\ out.index[k] = data.index[i]
             /\ \A c \in data.cols : out.rows[k][c] = data.rows[i][c]
             /\ \A c \in DerivedCols : out.rows[k][c] # NaNQ
             /\ out.rows[k].Close_Lag_7 = <<close(i - 7), 1>>
             /\ out.rows[k].Close_Lag_14 = <<close(i - 14), 1>>
             /\ out.rows[k].Momentum_14 =
                   PctChange(close(i - 14), close(i))

\* C4 as stated: for every gap-free table of n rows the engine returns
\* n - W rows, the input without its first W rows, in order, with no
\* substituted value.
C4_DropsFirstW == (pc = "featured") => DropsFirst(W)

\* C4 amended: that holds for the tables of at least W rows in which no
\* close is 0; a table of fewer than W rows comes back empty.
C4_DropsFirstWWhenLongEnough ==
    (pc = "featured") =>
        /\ (Len(data.rows) >= W /\ NoZeroClose(data)) => DropsFirst(W)
        /\ Len(data.rows) < W => Len(out.rows) = 0

C4_Witness ==
    /\ pc = "featured"
    /\ Len(data.rows) > W + 1
    /\ NoZeroClose(data)
    /\ Len(out.rows) = Len(data.rows) - W
    /\ out.rows[1].Close # out.rows[2].Close

\* The table of the scenario: 40 rows of close 100, volume 1000, interest
\* rate 2.5 and index level 4000.
IsScenario(df) == df = FeatTable(40, "const", MaxRows)

\* C5 as stated: the scenario table passes both gates and the engine drops
\* its first 14 rows, which leaves 26.
C5_ScenarioLeaves26 ==
    (pc = "featured" /\ IsScenario(data)) =>
        /\ ~TooFewRows(data)
        /\ ~LowLiquidity(data)
        /\ DropsFirst(14)
        /\ Len(out.rows) = 26

\* C5 amended: the scenario table passes both gates and the engine drops
\* its first 30 rows, which leaves 10.
C5_ScenarioLeaves10 ==
    (pc = "featured" /\ IsScenario(data)) =>
        /\ ~TooFewRows(data)
        /\ ~LowLiquidity(data)
        /\ DropsFirst(30)
        /\ Len(out.rows) = 10

C5_Witness == pc = "featured" /\ IsScenario(data) /\ Len(out.rows) = 10

---------------------------------------------------------------------------
(* run_pipeline *)

\* No table is in play.
TableIdle ==
    /\ stock_df = EmptyTable /\ macro_df = EmptyTable /\ merged = EmptyTable
    /\ featCalls = 0 /\ data = EmptyTable /\ out = EmptyTable

\* The tickers run_pipeline is called with: what ticker.isalpha() and
\* len(ticker) say of each.
Tickers ==
    {[name |-> "TSLA", isalpha |-> TRUE, len |-> 4],
     [name |-> "AAPL", isalpha |-> TRUE, len |-> 4],
     [name |-> "BRK.B", isalpha |-> FALSE, len |-> 5],
     [name |-> "GOOGLE", isalpha |-> TRUE, len |-> 6]}

\* The three intermediate files of a run, by the local name that holds
\* their path: static/<ticker>_raw_data.csv, static/macro_indicators.csv,
\* static/<ticker>_processed.csv.
CsvNames == {"stock_csv", "macro_csv", "processed_csv"}

\* Lines 12-13: the ticker format.
PipeValidate ==
    /\ pc = "run_pipeline"
    /\ IF ~ticker.isalpha \/ ticker.len > 5
       THEN pc' = "except" /\ err' = "ValueError: Invalid ticker format"
       ELSE pc' = "fetch_stock" /\ err' = err
    /\ UNCHANGED <<pipeVars, tableVars, trainVars, stageVars>>

\* Lines 15-19: fetch_stock_data returns a table or raises; an empty table
\* makes run_pipeline raise.
PipeFetchStock ==
    /\ pc = "fetch_stock"
    /\ \E result \in {"table", "raises", "empty"} :
         IF result = "table"
         THEN pc' = "save_stock" /\ err' = err
         ELSE /\ pc' = "except"
              /\ err' = IF result = "raises" THEN "ValueError: fetch_stock_data"
                        ELSE "RuntimeError: No data found"
    /\ UNCHANGED <<pipeVars, tableVars, trainVars, stageVars>>

\* Lines 21-23: stock_csv is bound and written.
PipeSaveStock ==
    /\ pc = "save_stock"
    /\ bound' = bound \cup {"stock_csv"}
    /\ disk' = disk \cup {"stock_csv"}
    /\ written' = written \cup {"stock_csv"}
    /\ pc' = "fetch_macro"
    /\ UNCHANGED <<err, ticker>>
    /\ UNCHANGED <<tableVars, trainVars, stageVars>>

\* Lines 25-27: fetch_macro_indicators returns a table, raises, or returns
\* None or an empty table.
PipeFetchMacro ==
    /\ pc = "fetch_macro"
    /\ \E result \in {"table", "raises", "empty"} :
         IF result = "table"
         THEN pc' = "save_macro" /\ err' = err
         ELSE /\ pc' = "except"
              /\ err' = IF result = "raises" THEN "Exception: fetch_macro_indicators"
                        ELSE "RuntimeError: Failed to fetch macroeconomic data"
    /\ UNCHANGED <<pipeVars, tableVars, trainVars, stageVars>>

\* Lines 29-31: macro_csv is bound and written.
PipeSaveMacro ==
    /\ pc = "save_macro"
    /\ bound' = bound \cup {"macro_csv"}
    /\ disk' = disk \cup {"macro_csv"}
    /\ written' = written \cup {"macro_csv"}
    /\ pc' = "preprocess_call"
    /\ UNCHANGED <<err, ticker>>
    /\ UNCHANGED <<tableVars, trainVars, stageVars>>

\* Lines 33-35: preprocess_data returns a table, raises, or returns an
\* empty table.
PipePreprocess ==
    /\ pc = "preprocess_call"
    /\ \E result \in {"table", "raises", "empty"} :
         IF result = "table"
         THEN pc' = "save_processed" /\ err' = err
         ELSE /\ pc' = "except"
              /\ err' = IF result = "raises" THEN "ValueError: preprocess_data"
                        ELSE "RuntimeError: Data preprocessing failed"
    /\ UNCHANGED <<pipeVars, tableVars, trainVars, stageVars>>

\* Lines 37-39: processed_csv is bound and written.
PipeSaveProcessed ==
    /\ pc = "save_processed"
    /\ bound' = bound \cup {"processed_csv"}
    /\ disk' = disk \cup {"processed_csv"}
    /\ written' = written \cup {"processed_csv"}
    /\ pc' = "stage_a"
    /\ UNCHANGED <<err, ticker>>
    /\ UNCHANGED <<tableVars, trainVars, stageVars>>

\* Line 41: train_prophet_model(processed_data, ticker, timestamp=ts).  The
\* function of prophet_model.py takes (data, ticker, periods): the call
\* raises TypeError for the keyword it does not have.
PipeStageA ==
    /\ pc = "stage_a"
    /\ pc' = "except"
    /\ err' = "TypeError: unexpected keyword argument 'timestamp'"
    /\ UNCHANGED <<pipeVars, tableVars, trainVars, stageVars>>

\* Lines 49-54: the handler.  The list [stock_csv, macro_csv, processed_csv]
\* is built first: with one of the names unbound that raises
\* UnboundLocalError and nothing is removed; otherwise every one of the
\* three files that exists is removed and the exception is raised again.
PipeCleanup ==
    /\ pc = "except"
    /\ IF CsvNames \subseteq bound
       THEN disk' = disk \ CsvNames /\ err' = err
       ELSE disk' = disk /\ err' = "UnboundLocalError"
    /\ pc' = "failed"
    /\ UNCHANGED <<ticker, bound, written>>
    /\ UNCHANGED <<tableVars, trainVars, stageVars>>

\* A run starts with any of the three files left on disk by earlier runs.
InitPipe ==
    /\ pc = "run_pipeline"
    /\ err = "none"
    /\ TableIdle
    /\ ticker \in Tickers
    /\ disk \in SUBSET CsvNames
    /\ bound = {}
    /\ written = {}
    /\ TrainIdle
    /\ StageIdle

NextPipe ==
    \/ PipeValidate \/ PipeFetchStock \/ PipeSaveStock \/ PipeFetchMacro
    \/ PipeSaveMacro \/ PipePreprocess \/ PipeSaveProcessed \/ PipeStageA
    \/ PipeCleanup

SpecPipe == InitPipe /\ [][NextPipe]_vars

---------------------------------------------------------------------------
(* Claims about run_pipeline, checked under SpecPipe *)

\* C3: when a failed run returns to its caller, none of the files the run
\* wrote is on disk.
C3_NoPartialOutput == (pc = "failed") => (written \cap disk = {})

\* run_pipeline is one synchronous thread: while a step is left it is taken.
SpecPipeLive == InitPipe /\ [][NextPipe]_vars /\ WF_vars(NextPipe)

\* Lines 42-47: the run returned model, forecast and report_path.
PipeSucceeded == pc = "pipeline_returned"

---------------------------------------------------------------------------
(* Stage A as train_model uses it: train_prophet_model of model_training.py *)

\* What a fitted Prophet model predicts is not decided by this code: a fit
\* is one of a few prediction rules, yhat = a + b * ds with the band
\* yhat -+ u, some of which leave [0, cap].
ProphetFits ==
    {[a |-> -3, b |-> 2, u |-> 1, fitted |-> TRUE],
     [a |-> 50, b |-> 1, u |-> 60, fitted |-> TRUE],
     [a |-> 7, b |-> 0, u |-> 0, fitted |-> TRUE],
     [a |-> 4, b |-> 0, u |-> 9, fitted |-> TRUE]}

\* model.predict(future) for one date, before any clipping.
ProphetPredict(f, ds) ==
    [ds |-> ds, yhat |-> f.a + f.b * ds,
     yhat_lower |-> (f.a + f.b * ds) - f.u, yhat_upper |-> (f.a + f.b * ds) + f.u]

\* model.make_future_dataframe(periods): the dates of the history in date
\* order, then the nfuture (`periods`) days that follow the last one.
make_future_dataframe(dates, nfuture) ==
    LET n == Cardinality(dates)
        hist == [i \in 1..n |-> CHOOSE d \in dates : Cardinality({e \in dates : e < d}) = i - 1]
    IN Eager([i \in 1..(n + nfuture) |-> IF i <= n THEN hist[i] ELSE Max(dates) + (i - n)])

\* Series.clip(lower=0)
ClipLower(v) == IF v < 0 THEN 0 ELSE v

\* The horizon of train_model's Stage A: periods=30.
HorizonMT == 30

ForecastCols == {"ds", "yhat", "yhat_lower", "yhat_upper"}

\* Lines 178-189 of model_training.py: the forecast over the history and
\* the horizon, yhat alone clipped at the floor.
ForecastMT(df, f) ==
    LET future == make_future_dataframe(Dates(df), HorizonMT)
    IN [cols |-> ForecastCols,
        index |-> RangeIndex(Len(future)),
        rows |-> Eager([i \in 1..Len(future) |->
                    LET r == ProphetPredict(f, future[i])
                    IN [r EXCEPT !.yhat = ClipLower(r.yhat)]])]

---------------------------------------------------------------------------
(* Stage B: train_model *)

required_features == {"SP500_Relative", "Volatility_7", "Volatility_30",
                      "Close_Lag_7", "Close_Lag_14", "Interest_Rate_MA30",
                      "Momentum_14", "Market_Cap_Relative"}

\* int(len(data) * 0.8): 0.8 * n in floating point is never below 4n/5,
\* so the truncation is floor(4n/5).
SplitPosition(n) == (n * 8) \div 10

\* Mutant: the boundary row put in the training partition (Date <= split_date).
TrainPart_Inclusive(df, sd) ==
    KeepRows(df, {i \in 1..Len(df.rows) : df.rows[i].Date <= sd})

\* data[data['Date'] < split_date]
TrainPart(df, sd) ==
    KeepRows(df, {i \in 1..Len(df.rows) : df.rows[i].Date < sd})

\* data[data['Date'] >= split_date]
TestPart(df, sd) ==
    KeepRows(df, {i \in 1..Len(df.rows) : df.rows[i].Date >= sd})

\* forecast[col][lo:hi] as a pandas Series: the cells at positions lo+1..hi
\* with their labels.
SliceOf(fc, col, lo, hi) ==
    LET top == IF hi < Len(fc.rows) THEN hi ELSE Len(fc.rows)
    IN [index |-> Eager([k \in 1..(top - lo) |-> fc.index[lo + k]]),
        values |-> Eager([k \in 1..(top - lo) |-> fc.rows[lo + k][col]])]

\* df[col] = series: pandas aligns the series to df on the row labels; a
\* row whose label the series lacks gets a missing cell.
SetColumn(df, col, series) ==
    [cols |-> df.cols \cup {col},
     index |-> df.index,
     rows |-> Eager([i \in 1..Len(df.rows) |->
                 LET hit == {k \in 1..Len(series.index) : series.index[k] = df.index[i]}
                     cell == IF hit = {} THEN NaNQ ELSE <<series.values[CHOOSE k \in hit : TRUE], 1>>
                 IN Eager([c \in df.cols \cup {col} |->
                              IF c = col THEN cell ELSE df.rows[i][c]])])]

\* df[col] = cells, a column computed from df's own columns, row by row.
MapColumn(df, col, cells) ==
    [cols |-> df.cols \cup {col},
     index |-> df.index,
     rows |-> Eager([i \in 1..Len(df.rows) |->
                 Eager([c \in df.cols \cup {col} |->
                          IF c = col THEN cells[i] ELSE df.rows[i][c]])])]

\* a - b on cells with denominator 1, missing if an operand is.
QSub(a, b) == IF a = NaNQ \/ b = NaNQ THEN NaNQ ELSE <<a[1] - b[1], 1>>

\* Mutant: the sum floored at 0, as a price.
QAdd_Clipped(a, b) ==
    IF a = NaNQ \/ b = NaNQ THEN NaNQ ELSE <<ClipLower(a[1] + b[1]), 1>>

\* a + b on cells with denominator 1, missing if an operand is.
QAdd(a, b) == IF a = NaNQ \/ b = NaNQ THEN NaNQ ELSE <<a[1] + b[1], 1>>

\* What a fitted residual model predicts is not decided by this code: a
\* fitted model is one of a few functions of the feature vector.
ResidFits ==
    {[w0 |-> 0, w1 |-> 1, fitted |-> TRUE], [w0 |-> -5, w1 |-> 0, fitted |-> TRUE],
     [w0 |-> 2, w1 |-> -3, fitted |-> TRUE]}

\* model.predict(X) for the feature vector x of one row.
Predict(m, x) == <<m.w0 + m.w1 * x.Close_Lag_7[1], 1>>

FeatureVector(row) == [c \in required_features \cap DOMAIN row |-> row[c]]

\* TimeSeriesSplit(n_splits=5)
n_splits == 5

\* Mutant: cross-validation asks for two rows per fold.
CannotSplit_TwoPerFold(n_samples) == 2 * (n_splits + 1) > n_samples

\* TimeSeriesSplit.split raises ValueError when the number of folds,
\* n_splits + 1, is greater than the number of samples.
CannotSplit(n_samples) == n_splits + 1 > n_samples

HasMissingTarget(df) == \E i \in 1..Len(df.rows) : df.rows[i].Residual = NaNQ

\* Lines 59-61: the indicators are added when the table lacks them.
TrainFeatures ==
    /\ pc = "train_model"
    /\ IF "SP500_Relative" \notin data.cols
       THEN frame' = add_technical_indicators(data) /\ featCalls' = featCalls + 1
       ELSE frame' = data /\ featCalls' = featCalls
    /\ pc' = "split"
    /\ UNCHANGED <<err, stock_df, macro_df, merged, data, out>>
    /\ UNCHANGED <<split_date, train, test, fit, forecast, model, y_pred>>
    /\ UNCHANGED <<pipeVars, stageVars>>

\* Lines 63-66: the chronological split; iloc raises IndexError on an
\* empty table.
TrainSplit ==
    /\ pc = "split"
    /\ IF Len(frame.rows) = 0
       THEN /\ pc' = "raised" /\ err' = "IndexError"
            /\ UNCHANGED <<split_date, train, test>>
       ELSE /\ split_date' = frame.rows[SplitPosition(Len(frame.rows)) + 1].Date
            /\ train' = TrainPart(frame, split_date')
            /\ test' = TestPart(frame, split_date')
            /\ pc' = "stage1" /\ err' = err
    /\ UNCHANGED <<frame, fit, forecast, model, y_pred>>
    /\ UNCHANGED <<tableVars, pipeVars, stageVars>>

\* Lines 68-73: Stage A is fitted on the whole table (Prophet raises
\* ValueError on fewer than 2 rows), its yhat is attached to the training
\* rows and the residual target is computed.
TrainStage1 ==
    /\ pc = "stage1"
    /\ IF Len(frame.rows) < 2
       THEN /\ pc' = "raised" /\ err' = "ValueError: Dataframe has less than 2 non-NaN rows"
            /\ UNCHANGED <<fit, forecast, train>>
       ELSE \E f \in ProphetFits :
            /\ fit' = f
            /\ forecast' = ForecastMT(frame, f)
            /\ train' = LET t == SetColumn(train, "Prophet_Pred",
                                           SliceOf(forecast', "yhat", 0, Len(train.rows)))
                            resid == [i \in 1..Len(t.rows) |->
                                        QSub(<<t.rows[i].Close, 1>>, t.rows[i].Prophet_Pred)]
                        IN MapColumn(t, "Residual", resid)
            /\ pc' = "cross_val" /\ err' = err
    /\ UNCHANGED <<frame, split_date, test, model, y_pred>>
    /\ UNCHANGED <<tableVars, pipeVars, stageVars>>

\* Lines 88-99: X_train = train[required_features] raises KeyError on a
\* missing feature column; cross_val_score over TimeSeriesSplit(5) raises
\* when the partition is too small.  A missing target makes folds fail in
\* the fit or in the score, which raises or only prints nan, depending on
\* the scikit-learn version.
TrainCrossVal ==
    /\ pc = "cross_val"
    /\ IF required_features \ train.cols # {}
       THEN pc' = "raised" /\ err' = "KeyError"
       ELSE IF CannotSplit(Len(train.rows))
       THEN pc' = "raised" /\ err' = "ValueError: Cannot have number of folds"
       ELSE IF HasMissingTarget(train)
       THEN \E raises \in BOOLEAN :
               IF raises THEN pc' = "raised" /\ err' = "ValueError: Input y contains NaN"
               ELSE pc' = "final_fit" /\ err' = err
       ELSE pc' = "final_fit" /\ err' = err
    /\ UNCHANGED trainVars
    /\ UNCHANGED <<tableVars, pipeVars, stageVars>>

\* Lines 101-102: the final fit; it raises on a missing target.
TrainFit ==
    /\ pc = "final_fit"
    /\ IF HasMissingTarget(train)
       THEN pc' = "raised" /\ err' = "ValueError: Input y contains NaN" /\ model' = model
       ELSE pc' = "predict" /\ err' = err /\ model' \in ResidFits
    /\ UNCHANGED <<frame, split_date, train, test, fit, forecast, y_pred>>
    /\ UNCHANGED <<tableVars, pipeVars, stageVars>>

\* Lines 104-108: Stage A's yhat attached to the test rows, the residual
\* predicted from the features, the two added.
TrainPredict ==
    /\ pc = "predict"
    /\ test' = LET k == Len(train.rows)
                   t1 == SetColumn(test, "Prophet_Pred",
                                   SliceOf(forecast, "yhat", k, k + Len(test.rows)))
                   rp == [i \in 1..Len(t1.rows) |-> Predict(model, FeatureVector(t1.rows[i]))]
                   t2 == MapColumn(t1, "Residual_Pred", rp)
                   hy == [i \in 1..Len(t2.rows) |->
                             QAdd(t2.rows[i].Prophet_Pred, t2.rows[i].Residual_Pred)]
               IN MapColumn(t2, "Hybrid_Pred", hy)
    /\ pc' = "evaluate"
    /\ UNCHANGED <<err, frame, split_date, train, fit, forecast, model, y_pred>>
    /\ UNCHANGED <<tableVars, pipeVars, stageVars>>

\* Lines 110-128: y_pred = test['Hybrid_Pred'].to_numpy(); the metrics
\* raise on a missing prediction; the plot and the return.
TrainReturn ==
    /\ pc = "evaluate"
    /\ y_pred' = [j \in 1..Len(test.rows) |-> test.rows[j].Hybrid_Pred]
    /\ IF \E j \in 1..Len(test.rows) : test.rows[j].Hybrid_Pred = NaNQ
       THEN pc' = "raised" /\ err' = "ValueError: Input contains NaN"
       ELSE pc' = "returned" /\ err' = err
    /\ UNCHANGED <<frame, split_date, train, test, fit, forecast, model>>
    /\ UNCHANGED <<tableVars, pipeVars, stageVars>>

---------------------------------------------------------------------------
(* The inputs of train_model: SpecTrain *)

\* The most rows a table has once it has its indicators.
MaxTrainRows == 13

\* df.reset_index(drop=True): the labels a table has once it is written to
\* CSV and read back.
reset_index(df) == [df EXCEPT !.index = RangeIndex(Len(df.rows))]

\* A merged table of n rows with no zero close, as preprocess_data builds
\* it (the default columns included).
MergedTable(n, pat) == AddDefaults(FeatTable(n, pat, n))

\* The tables train_model is called with: a merged table without its
\* indicators ("raw"), a table with its indicators and the labels dropna
\* left it ("featured"), the same with fresh labels ("reset"), and the
\* latter without the Interest_Rate_MA30 column.
TrainTable(m, pat, kind) ==
    LET raw == MergedTable(W + m, pat)
        ft == add_technical_indicators(raw)
    IN CASE kind = "raw" -> raw
         [] kind = "featured" -> ft
         [] kind = "reset" -> reset_index(ft)
         [] kind = "reset_no_ma30" ->
               Select(reset_index(ft), ft.cols \ {"Interest_Rate_MA30"})

TrainTables ==
    {TrainTable(m, pat, kind) :
        m \in 0..MaxTrainRows, pat \in {"const", "alt"},
        kind \in {"raw", "featured", "reset", "reset_no_ma30"}}

InitTrain ==
    /\ pc = "train_model"
    /\ err = "none"
    /\ stock_df = EmptyTable /\ macro_df = EmptyTable /\ merged = EmptyTable
    /\ featCalls = 0
    /\ data \in TrainTables
    /\ out = EmptyTable
    /\ PipeIdle
    /\ TrainIdle
    /\ StageIdle

NextTrain ==
    \/ TrainFeatures \/ TrainSplit \/ TrainStage1 \/ TrainCrossVal
    \/ TrainFit \/ TrainPredict \/ TrainReturn

SpecTrain == InitTrain /\ [][NextTrain]_vars

---------------------------------------------------------------------------
(* Claims about train_model, checked under SpecTrain *)

SplitDone == split_date # NaN

\* C8: the boundary date is the date of the row at position floor(0.8 n);
\* the training partition is the rows dated before it, the test partition
\* the rows dated on or after it, each in table order; the two are
\* disjoint, cover the table, and every training date precedes every test
\* date.
C8_ChronologicalSplit ==
    SplitDone =>
        LET n == Len(frame.rows)
            k == (4 * n) \div 5
            boundary == frame.rows[k + 1].Date
        IN /\ split_date = boundary
           /\ Dates(train) = {d \in Dates(frame) : d < boundary}
           /\ Dates(test) = {d \in Dates(frame) : d >= boundary}
           /\ Dates(train) \cap Dates(test) = {}
           /\ Len(train.rows) + Len(test.rows) = n
           /\ \A a \in Dates(train), b \in Dates(test) : a < b
           /\ \A i \in 1..Len(train.rows) :
                 train.rows[i].Date = frame.rows[i].Date /\ train.index[i] = frame.index[i]
           /\ \A i \in 1..Len(test.rows) :
                 /\ test.rows[i].Date = frame.rows[Len(train.rows) + i].Date
                 /\ test.index[i] = frame.index[Len(train.rows) + i]

C8_Witness == SplitDone /\ Len(train.rows) >= 4 /\ Len(test.rows) >= 2

\* Stage A's central forecast for the date d.
YhatOn(d) == forecast.rows[CHOOSE r \in 1..Len(forecast.rows) : forecast.rows[r].ds = d].yhat

\* The row of train_model's table dated d.
FrameRowOn(d) == frame.rows[CHOOSE i \in 1..Len(frame.rows) : frame.rows[i].Date = d]

\* C7: the hybrid forecast returned for a test date is Stage A's forecast for
\* that date plus the residual predicted from that date's feature vector,
\* with nothing else applied.
C7_AdditiveComposition ==
    (pc = "returned") =>
        /\ Len(y_pred) = Len(test.rows)
        /\ \A j \in 1..Len(test.rows) :
              LET d == test.rows[j].Date
              IN /\ d = frame.rows[Len(train.rows) + j].Date
                 /\ y_pred[j] # NaNQ
                 /\ y_pred[j][1] =
                      YhatOn(d) + Predict(model, FeatureVector(FrameRowOn(d)))[1]

C7_Witness ==
    /\ pc = "returned"
    /\ Len(y_pred) >= 2
    /\ y_pred[1] # y_pred[2]
    /\ \E j \in 1..Len(y_pred) : y_pred[j][1] < 0

TargetsReady == "Residual" \in train.cols

\* C14: every training row's residual target is its close minus Stage A's
\* central forecast for the row's own date, and the Stage A value attached
\* to every test row is the forecast for that row's own date, whatever the
\* row labels of train_model's table are.
C14_OwnDateForecast ==
    /\ TargetsReady =>
         \A i \in 1..Len(train.rows) :
            /\ train.rows[i].Prophet_Pred = <<YhatOn(train.rows[i].Date), 1>>
            /\ train.rows[i].Residual =
                 <<train.rows[i].Close - YhatOn(train.rows[i].Date), 1>>
    /\ ("Prophet_Pred" \in test.cols) =>
         \A j \in 1..Len(test.rows) :
            test.rows[j].Prophet_Pred = <<YhatOn(test.rows[j].Date), 1>>

\* Cross-validation and the final fit have both completed.
FitCompleted == pc \in {"predict", "evaluate", "returned"}

\* C10 as stated, for a partition of 10 rows that has its feature columns
\* and targets: Stage B training fails for lack of training data, so
\* cross-validation does not complete and neither does the final fit.
C10_TenRowsFail ==
    (TargetsReady /\ Len(train.rows) = 10 /\ required_features \subseteq train.cols
        /\ ~HasMissingTarget(train)) =>
            /\ pc # "final_fit"
            /\ ~FitCompleted

\* C10 amended: the too-few-rows error of the 5-fold split is raised only
\* for a partition of fewer than 6 rows; with 10 rows, the feature columns
\* present and every target defined, nothing is raised and the final fit
\* completes.
C10_SixRowsSuffice ==
    /\ (err = "ValueError: Cannot have number of folds") => Len(train.rows) < n_splits + 1
    /\ (TargetsReady /\ Len(train.rows) = 10 /\ required_features \subseteq train.cols
          /\ ~HasMissingTarget(train)) => pc # "raised"
    /\ (TargetsReady /\ CannotSplit(Len(train.rows)) /\ required_features \subseteq train.cols)
          => pc \in {"cross_val", "raised"}

C10_Witness == Len(train.rows) = 10 /\ FitCompleted /\ model \in ResidFits

---------------------------------------------------------------------------
(* Monthly Aggregator: lines 40-64 of prophet_model.py *)

\* The calendar of the model: day 0 is 1 January of year 0 and every year
\* has 365 days (no leap day).
MonthDays == <<31, 28, 31, 30, 31, 30, 31, 31, 30, 31, 30, 31>>

RECURSIVE DaysBefore(_)
DaysBefore(m) == IF m = 1 THEN 0 ELSE DaysBefore(m - 1) + MonthDays[m - 1]

MonthOf(d) ==
    CHOOSE m \in 1..12 : DaysBefore(m) <= d % 365 /\ d % 365 < DaysBefore(m) + MonthDays[m]

DayOf(d) == (d % 365) - DaysBefore(MonthOf(d)) + 1

\* ds.dt.to_period('M').dt.strftime('%Y-%m'): the month of a date, as the
\* number of months since month 0; the order of the numbers is the order
\* of the strings.
YearMonth(d) == 12 * (d \div 365) + (MonthOf(d) - 1)

\* The months the actual table looks back over.
ActualMonths == 8

\* The months the forecast table is cut to: head(12).
ForecastMonths == 12

\* d - pd.DateOffset(months=k): the same day of the month k months
\* earlier, or that month's last day when it is shorter.
DateOffsetBack(d, k) ==
    LET ym == YearMonth(d) - k
        m == (ym % 12) + 1
    IN 365 * (ym \div 12) + DaysBefore(m) + Min({DayOf(d), MonthDays[m]}) - 1

\* Series.sum(), a left-to-right fold over the cells in row order.
RECURSIVE SumCells(_)
SumCells(s) == IF s = <<>> THEN 0 ELSE s[1] + SumCells(Tail(s))

\* Series.min() and Series.max(), folds over the cells in row order.
RECURSIVE MinCells(_)
MinCells(s) ==
    IF Len(s) = 1 THEN s[1]
    ELSE LET m == MinCells(Tail(s)) IN IF s[1] <= m THEN s[1] ELSE m

RECURSIVE MaxCells(_)
MaxCells(s) ==
    IF Len(s) = 1 THEN s[1]
    ELSE LET m == MaxCells(Tail(s)) IN IF s[1] >= m THEN s[1] ELSE m

\* Series.mean(): the sum over the count, kept as the pair <<sum, count>>.
MeanCells(s) == <<SumCells(s), Len(s)>>

\* The YearMonth column: the month of every row.
YearMonths(rows) == Eager([i \in 1..Len(rows) |-> YearMonth(rows[i].ds)])

\* The rows of the table that satisfy a mask, in row order.
Masked(rows, keep) ==
    LET pos == SelectSeq([i \in 1..Len(rows) |-> i], LAMBDA i : i \in keep)
    IN Eager([k \in 1..Len(pos) |-> rows[pos[k]]])

\* The cells of column col in the rows of month ym, in row order.
GroupCells(rows, yms, ym, col) ==
    LET pos == SelectSeq([i \in 1..Len(rows) |-> i], LAMBDA i : yms[i] = ym)
    IN Eager([k \in 1..Len(pos) |-> rows[pos[k]][col]])

\* The keys of groupby('YearMonth'), which pandas sorts.
GroupKeys(yms) == Eager(InOrder({yms[i] : i \in 1..Len(yms)}))

\* Mutant: the last date read off the last row (df['ds'].iloc[-1]).
LastDate_LastRow(rows) == rows[Len(rows)].ds

\* last_date = df['ds'].max()
LastDate(rows) == Max({rows[i].ds : i \in 1..Len(rows)})

\* Lines 42-47: the rows of the last 8 months, grouped by month, the mean
\* of y per month, sorted by month.
ActualMonthly(rows) ==
    LET eight_months_ago == DateOffsetBack(LastDate(rows), ActualMonths)
        actual_recent == Masked(rows, {i \in 1..Len(rows) : rows[i].ds >= eight_months_ago})
        yms == YearMonths(actual_recent)
        keys == GroupKeys(yms)
    IN Eager([k \in 1..Len(keys) |->
            [YearMonth |-> keys[k],
             Average |-> MeanCells(GroupCells(actual_recent, yms, keys[k], "y"))]])

\* Lines 50-62: the forecast rows from last_date on, grouped by month, min
\* of the lower bound, mean of the central forecast, max of the upper bound,
\* sorted by month and cut to the first 12 months.
ForecastMonthlyRaw(fc, last_date) ==
    LET forecast_future == Masked(fc, {i \in 1..Len(fc) : fc[i].ds >= last_date})
        yms == YearMonths(forecast_future)
        keys == GroupKeys(yms)
    IN Eager([k \in 1..Min({Len(keys), ForecastMonths}) |->
            [YearMonth |-> keys[k],
             Low |-> <<MinCells(GroupCells(forecast_future, yms, keys[k], "yhat_lower")), 1>>,
             Average |-> MeanCells(GroupCells(forecast_future, yms, keys[k], "yhat")),
             High |-> <<MaxCells(GroupCells(forecast_future, yms, keys[k], "yhat_upper")), 1>>]])

\* Mutant: the first forecast month's Average alone overwritten.
Anchor_AverageOnly(fm, last_actual_value) ==
    [fm EXCEPT ![1].Average = last_actual_value]

\* Lines 63-64: the three values of the first forecast month overwritten
\* with the last actual monthly average.
Anchor(fm, last_actual_value) ==
    [fm EXCEPT ![1] = [YearMonth |-> fm[1].YearMonth, Low |-> last_actual_value,
                       Average |-> last_actual_value, High |-> last_actual_value]]

\* Lines 40-64 on the rows of df and of forecast, in the order they are
\* given in.  forecast_monthly.index[0] raises on a forecast with no row
\* from last_date on.
MonthlyAggregate(rows, fc) ==
    LET am == ActualMonthly(rows)
        fm == ForecastMonthlyRaw(fc, LastDate(rows))
    IN IF fm = <<>>
       THEN [error |-> "IndexError: index 0 is out of bounds", actual |-> am, forecast |-> fm]
       ELSE [error |-> "none", actual |-> am, forecast |-> Anchor(fm, am[Len(am)].Average)]

---------------------------------------------------------------------------
(* Stage A: train_prophet_model of prophet_model.py, and the function of
   the same name of model_training.py called on its own *)

\* pd.to_datetime('2020-08-31') in the calendar of the model: 31 August of
\* year 1.
TSLASplit == 607

\* The default of the periods argument.
DefaultPeriods == 365

\* data.rename(columns={'Date': 'ds', 'Close': 'y'})
Renamed(df) ==
    LET cols == (df.cols \ {"Date", "Close"}) \cup {"ds", "y"}
    IN [cols |-> cols,
        index |-> df.index,
        rows |-> Eager([i \in 1..Len(df.rows) |->
                    Eager([c \in cols |->
                        IF c = "ds" THEN df.rows[i].Date
                        ELSE IF c = "y" THEN df.rows[i].Close
                        ELSE df.rows[i][c]])])]

\* df['cap'] = max_price; df['floor'] = 0
WithCapFloor(df, cap) ==
    LET cols == df.cols \cup {"cap", "floor"}
    IN [cols |-> cols,
        index |-> df.index,
        rows |-> Eager([i \in 1..Len(df.rows) |->
                    Eager([c \in cols |->
                        IF c = "cap" THEN cap
                        ELSE IF c = "floor" THEN 0
                        ELSE df.rows[i][c]])])]

\* data.loc[data['Date'] < split_date, 'Close'] *= 5
TSLAAdjusted(df) ==
    [df EXCEPT !.rows = Eager([i \in 1..Len(df.rows) |->
        IF df.rows[i].Date < TSLASplit
        THEN [df.rows[i] EXCEPT !["Close"] = 5 * df.rows[i].Close]
        ELSE df.rows[i]])]

\* data['Close'].max() * 2
MaxPrice(df) == 2 * Max({df.rows[i].Close : i \in 1..Len(df.rows)})

\* Lines 30-38 of prophet_model.py: the forecast over the history and the
\* horizon; yhat, yhat_lower and yhat_upper are each clipped at the floor,
\* and nothing is clipped at the ceiling.
ForecastPM(df, f, nfuture) ==
    LET future == make_future_dataframe({df.rows[i].ds : i \in 1..Len(df.rows)}, nfuture)
    IN [cols |-> ForecastCols,
        index |-> RangeIndex(Len(future)),
        rows |-> Eager([i \in 1..Len(future) |->
                    LET r == ProphetPredict(f, future[i])
                    IN [ds |-> r.ds, yhat |-> ClipLower(r.yhat),
                        yhat_lower |-> ClipLower(r.yhat_lower),
                        yhat_upper |-> ClipLower(r.yhat_upper)]])]

\* Lines 7-13: the TSLA adjustment, the ceiling, and the cap and floor
\* columns, all written to the caller's table.
StageAConstrain ==
    /\ pc = "stageA" /\ impl = "prophet_model"
    /\ LET adjusted == IF tkr = "TSLA" THEN TSLAAdjusted(data) ELSE data
       IN /\ max_price' = MaxPrice(adjusted)
          /\ data' = WithCapFloor(adjusted, MaxPrice(adjusted))
    /\ pc' = "stageA_fit"
    /\ UNCHANGED <<err, stock_df, macro_df, merged, featCalls, out>>
    /\ UNCHANGED <<impl, tkr, periods, prophet_df, actual_monthly, forecast_monthly>>
    /\ UNCHANGED <<pipeVars, trainVars>>

\* Lines 15-28: df is the renamed table; Prophet refuses to fit fewer than
\* two rows.  What the fit learns is any of ProphetFits.
StageAFit ==
    /\ pc = "stageA_fit"
    /\ prophet_df' = Renamed(data)
    /\ IF Len(data.rows) < 2
       THEN /\ pc' = "raised" /\ err' = "ValueError: Dataframe has less than 2 non-NaN rows"
            /\ fit' = fit
       ELSE /\ \E f \in ProphetFits : fit' = f
            /\ pc' = "stageA_predict" /\ err' = err
    /\ UNCHANGED <<frame, split_date, train, test, forecast, model, y_pred>>
    /\ UNCHANGED <<impl, tkr, periods, max_price, actual_monthly, forecast_monthly>>
    /\ UNCHANGED <<tableVars, pipeVars>>

\* Lines 30-38: the prediction over history and horizon, clipped.
StageAPredict ==
    /\ pc = "stageA_predict"
    /\ forecast' = ForecastPM(prophet_df, fit, periods)
    /\ pc' = "stageA_monthly"
    /\ UNCHANGED <<frame, split_date, train, test, fit, model, y_pred>>
    /\ UNCHANGED <<err, tableVars, pipeVars, stageVars>>

\* Lines 40-64: the two monthly tables.
StageAMonthly ==
    /\ pc = "stageA_monthly"
    /\ LET r == MonthlyAggregate(prophet_df.rows, forecast.rows)
       IN /\ actual_monthly' = r.actual
          /\ forecast_monthly' = r.forecast
          /\ err' = IF r.error = "none" THEN err ELSE r.error
          /\ pc' = IF r.error = "none" THEN "stageA_report" ELSE "raised"
    /\ UNCHANGED <<impl, tkr, periods, max_price, prophet_df>>
    /\ UNCHANGED <<tableVars, pipeVars, trainVars>>

\* Lines 66-76: the report is rendered from a copy of data and the two
\* monthly tables; model, forecast and the report's path are returned.
StageAReport ==
    /\ pc = "stageA_report"
    /\ pc' = "stageA_returned"
    /\ UNCHANGED <<err, tableVars, pipeVars, trainVars, stageVars>>

\* train_prophet_model of model_training.py, lines 154-189: it works on a
\* copy of four columns of data, and returns model and forecast.
StageAMT ==
    /\ pc = "stageA" /\ impl = "model_training"
    /\ IF ~({"Date", "Close", "SP500", "Interest_Rate"} \subseteq data.cols)
       THEN /\ pc' = "raised" /\ err' = "KeyError"
            /\ UNCHANGED <<fit, forecast, max_price, prophet_df>>
       ELSE /\ max_price' = MaxPrice(data)
            /\ prophet_df' = WithCapFloor(Renamed(Select(data, {"Date", "Close", "SP500", "Interest_Rate"})),
                                          MaxPrice(data))
            /\ IF Len(data.rows) < 2
               THEN /\ pc' = "raised" /\ err' = "ValueError: Dataframe has less than 2 non-NaN rows"
                    /\ UNCHANGED <<fit, forecast>>
               ELSE \E f \in ProphetFits :
                    /\ fit' = f
                    /\ forecast' = ForecastMT(data, f)
                    /\ pc' = "stageA_returned" /\ err' = err
    /\ UNCHANGED <<frame, split_date, train, test, model, y_pred>>
    /\ UNCHANGED <<impl, tkr, periods, actual_monthly, forecast_monthly>>
    /\ UNCHANGED <<tableVars, pipeVars>>

\* The tables Stage A is run on: up to MaxStageRows rows around the TSLA
\* split date, a day or twenty days apart, in either row order.
MaxStageRows == 4

StageFirsts == {560, 600}
StageSteps == {1, 20}

StageCols == {"Date", "Close", "Interest_Rate", "SP500"}

StageRow(d) == [Date |-> d, Close |-> 1 + (d % 3), Interest_Rate |-> 25, SP500 |-> 4000]

StageTable(first, n, step, descending) ==
    LET asc == [i \in 1..n |-> StageRow(first + (i - 1) * step)]
    IN [cols |-> StageCols,
        index |-> RangeIndex(n),
        rows |-> Eager(IF descending THEN Reverse(asc) ELSE asc)]

StageTables ==
    {StageTable(first, n, step, descending) :
        first \in StageFirsts, n \in 1..MaxStageRows, step \in StageSteps,
        descending \in BOOLEAN}

InitStageA ==
    /\ pc = "stageA"
    /\ err = "none"
    /\ stock_df = EmptyTable /\ macro_df = EmptyTable /\ merged = EmptyTable
    /\ featCalls = 0
    /\ data \in StageTables
    /\ out = EmptyTable
    /\ PipeIdle
    /\ TrainIdle
    /\ impl \in {"prophet_model", "model_training"}
    /\ IF impl = "prophet_model"
       THEN tkr \in {"TSLA", "STOCK"} /\ periods \in {2, DefaultPeriods}
       ELSE tkr = "" /\ periods = HorizonMT
    /\ max_price = 0 /\ prophet_df = EmptyTable
    /\ actual_monthly = <<>> /\ forecast_monthly = <<>>

NextStageA ==
    \/ StageAConstrain \/ StageAFit \/ StageAPredict
    \/ StageAMonthly \/ StageAReport \/ StageAMT

SpecStageA == InitStageA /\ [][NextStageA]_vars

---------------------------------------------------------------------------
(* Claims about Stage A, checked under SpecStageA *)

ForecastReturned == pc = "stageA_returned"

WithinBounds(v) == 0 <= v /\ v <= max_price

\* C6: in the forecast Stage A returns, under either implementation, the
\* central forecast, the lower bound and the upper bound of every date lie
\* between 0 and the price ceiling (twice the largest close).
C6_ForecastWithinBounds ==
    ForecastReturned =>
        \A i \in 1..Len(forecast.rows) :
            /\ WithinBounds(forecast.rows[i].yhat)
            /\ WithinBounds(forecast.rows[i].yhat_lower)
            /\ WithinBounds(forecast.rows[i].yhat_upper)

\* C11: no step of a stage changes the table the stage was given: the
\* caller's data keeps every column and every value while Stage A runs and
\* after it returns, and so do the two tables given to preprocess_data.
C11_InputNeverMutated ==
    [][data' = data /\ stock_df' = stock_df /\ macro_df' = macro_df]_vars

\* The sum of column col over the rows at the positions of a set.
RECURSIVE SumAt(_, _, _)
SumAt(rows, col, I) ==
    IF I = {} THEN 0
    ELSE LET i == CHOOSE x \in I : TRUE IN rows[i][col] + SumAt(rows, col, I \ {i})

\* The forecast rows the aggregation is about: those from the last actual
\* date on.
FutureRows == {i \in 1..Len(forecast.rows) : forecast.rows[i].ds >= LastDate(prophet_df.rows)}

FutureMonths == {YearMonth(forecast.rows[i].ds) : i \in FutureRows}

\* The actual rows of the month of the last actual date.
LastActualRows ==
    {i \in 1..Len(prophet_df.rows) :
        YearMonth(prophet_df.rows[i].ds) = YearMonth(LastDate(prophet_df.rows))}

\* Stage A of prophet_model.py has built its two monthly tables.
TablesBuilt == impl = "prophet_model" /\ pc \in {"stageA_report", "stageA_returned"}

\* C13: the forecast monthly table has at most 12 records, one per month of
\* the future forecast rows, in increasing month order; the first record's
\* Low, Average and High are the average of the last actual month, and
\* every later record holds the minimum daily lower bound, the mean daily
\* central forecast and the maximum daily upper bound of its month.
C13_ForecastMonthlyTable ==
    TablesBuilt =>
        LET fm == forecast_monthly
            future == FutureRows
            yms == YearMonths(forecast.rows)
            months == {yms[i] : i \in future}
            anchor == <<SumAt(prophet_df.rows, "y", LastActualRows), Cardinality(LastActualRows)>>
        IN /\ Len(fm) <= ForecastMonths
           /\ \A k \in 1..Len(fm) : fm[k].YearMonth \in months
           /\ \A k \in 1..(Len(fm) - 1) : fm[k].YearMonth < fm[k + 1].YearMonth
           /\ fm[1].YearMonth = Min(months)
           /\ fm[1].Low = anchor /\ fm[1].Average = anchor /\ fm[1].High = anchor
           /\ anchor = actual_monthly[Len(actual_monthly)].Average
           /\ \A k \in 2..Len(fm) :
                LET I == {i \in future : yms[i] = fm[k].YearMonth}
                IN /\ fm[k].Low = <<Min({forecast.rows[i].yhat_lower : i \in I}), 1>>
                   /\ fm[k].Average = <<SumAt(forecast.rows, "yhat", I), Cardinality(I)>>
                   /\ fm[k].High = <<Max({forecast.rows[i].yhat_upper : i \in I}), 1>>

\* A forecast of 13 months cut to 12, with a later month whose three
\* values differ.
C13_Witness ==
    /\ TablesBuilt
    /\ Cardinality(FutureMonths) = 13
    /\ Len(forecast_monthly) = 12
    /\ \E k \in 2..12 :
         /\ forecast_monthly[k].Low[1] * forecast_monthly[k].Average[2] < forecast_monthly[k].Average[1]
         /\ forecast_monthly[k].Average[1] < forecast_monthly[k].High[1] * forecast_monthly[k].Average[2]

---------------------------------------------------------------------------
(* The Monthly Aggregator on rows in any order *)

\* Rows per table.
MaxAggRows == 3

\* The days the actual rows are drawn from: 7 December of year 0, which is
\* within 8 months of 15 July of year 1 and of no later day of the set, and
\* days of July, August and September of year 1.
ActualDays == {340, 560, 590, 600, 615}

\* The days the forecast rows are drawn from.
ForecastDays == {560, 590, 600, 615, 620}

ActualRow(d) == [ds |-> d, y |-> 1 + (d % 7)]

ForecastRow(d) ==
    [ds |-> d, yhat |-> (d % 5) + (d % 3), yhat_lower |-> d % 5,
     yhat_upper |-> (d % 5) + (d % 3) + (d % 4)]

\* Every order of the rows of a sequence.
Orders(s) ==
    {[i \in 1..Len(s) |-> s[p[i]]] :
        p \in {q \in [1..Len(s) -> 1..Len(s)] : \A i, j \in 1..Len(s) : q[i] = q[j] => i = j}}

\* The tables of MaxAggRows rows drawn from a set of days, in every order.
ActualTables ==
    {[cols |-> {"ds", "y"}, index |-> RangeIndex(MaxAggRows), rows |-> rows] :
        rows \in UNION {Orders([i \in 1..MaxAggRows |-> ActualRow(InOrder(D)[i])]) :
                            D \in {E \in SUBSET ActualDays : Cardinality(E) = MaxAggRows}}}

ForecastTables ==
    {[cols |-> ForecastCols, index |-> RangeIndex(MaxAggRows), rows |-> rows] :
        rows \in UNION {Orders([i \in 1..MaxAggRows |-> ForecastRow(InOrder(D)[i])]) :
                            D \in {E \in SUBSET ForecastDays : Cardinality(E) = MaxAggRows}}}

InitAgg ==
    /\ pc = "stageA_monthly"
    /\ err = "none"
    /\ TableIdle
    /\ PipeIdle
    /\ frame = EmptyTable /\ split_date = NaN /\ train = EmptyTable
    /\ test = EmptyTable /\ fit = NoFit /\ model = NoModel /\ y_pred = <<>>
    /\ forecast \in ForecastTables
    /\ impl = "prophet_model" /\ tkr = "STOCK" /\ periods = 0 /\ max_price = 0
    /\ prophet_df \in ActualTables
    /\ actual_monthly = <<>> /\ forecast_monthly = <<>>

NextAgg == StageAMonthly \/ StageAReport

SpecAgg == InitAgg /\ [][NextAgg]_vars

\* The rows of a table in chronological order.
SortByDs(rows) ==
    Eager([i \in 1..Len(rows) |->
        rows[CHOOSE j \in 1..Len(rows) :
                Cardinality({k \in 1..Len(rows) : rows[k].ds < rows[j].ds}) = i - 1]])

\* The aggregation has run, to its end or to its IndexError.
MonthlyDone ==
    \/ pc \in {"stageA_report", "stageA_returned"}
    \/ pc = "raised" /\ actual_monthly # <<>>

\* C9: the actual monthly table and the forecast monthly table, its
\* overwritten first month included, are those computed from the same rows
\* put in chronological order, whatever order the daily actual rows and the
\* daily forecast rows come in; so is the failure on a forecast with no row
\* from the last actual date on.
C9_OrderIndependent ==
    MonthlyDone =>
        LET r == MonthlyAggregate(SortByDs(prophet_df.rows), SortByDs(forecast.rows))
        IN /\ actual_monthly = r.actual
           /\ forecast_monthly = r.forecast
           /\ (pc = "raised") <=> (r.error # "none")

\* Both tables out of order, two actual months and two forecast months
\* aggregated, a month of several rows among them.
C9_Witness ==
    /\ pc = "stageA_report"
    /\ prophet_df.rows # SortByDs(prophet_df.rows)
    /\ forecast.rows # SortByDs(forecast.rows)
    /\ Len(actual_monthly) >= 2 /\ Len(forecast_monthly) >= 2
    /\ \E k \in 1..Len(actual_monthly) : actual_monthly[k].Average[2] >= 2
    /\ forecast_monthly[1].Low = actual_monthly[Len(actual_monthly)].Average

=============================================================================
